---- MODULE Spec2Model ----
(***************************************************************************)
(* Model of the teuthology job supervisor (teuthology/dispatcher/          *)
(* supervisor.py) and of its predecessor, the worker (teuthology/          *)
(* worker.py).  One behaviour is one run of main() for one job descriptor, *)
(* together with the execution subprocess that runs beside it.             *)
(***************************************************************************)
EXTENDS Integers, Sequences, FiniteSets, TLC

(***************************************************************************)
(* Bounds of the model and configuration values.                           *)
(***************************************************************************)
\* at most this many poll ticks observe the subprocess alive
MaxTicks == 4
\* at most this many calls to the outside fail in one run
MaxFailures == 1
\* teuth_config.watchdog_interval, in seconds
WatchdogInterval == 2
\* teuth_config.max_job_time, in seconds
MaxJobTime == 4

(***************************************************************************)
(* The job's machines.  The descriptor's target mapping is keyed by        *)
(* user@host.domain, the lock server answers with host.domain, and the     *)
(* unlock call takes the short host name.                                  *)
(***************************************************************************)
Targets == {"ubuntu@a.front", "ubuntu@b.front"}

HostOf(t) ==
    CASE t = "ubuntu@a.front" -> "a.front"
      [] t = "ubuntu@b.front" -> "b.front"

\* teuthology.misc.decanonicalize_hostname, imported as shortname
shortname(n) ==
    CASE n = "a.front" -> "a"
      [] n = "b.front" -> "b"
      [] n = "ubuntu@a.front" -> "a"
      [] n = "ubuntu@b.front" -> "b"
      [] OTHER -> n

\* the retired branches of the assertion after the watchdog loop
\* an assertion written before dumpling was retired
LegacyBranchesOlder == {"argonaut", "bobtail", "cuttlefish"}

LegacyBranches == {"argonaut", "bobtail", "cuttlefish", "dumpling"}

\* job_config.get('teuthology_branch'): "none" is a descriptor without the key
Branches == {"master", "dumpling", "none"}

\* the shapes of the legacy nested job_config['config'] entry
ConfigShapes == {"absent", "notdict", "dict", "dict_targets"}

VARIABLES
    variant,        \* "supervisor" or "worker": which main() runs
    results_server, \* teuth_config.results_server is set
    loaded_targets, \* 'targets' was in the descriptor main() loaded
    job_config,     \* the job descriptor, mutated during the run
    pc,             \* position of main()
    exc,            \* the exception that left main(), "none" if none
    raised,         \* every exception raised by a step, in order
    proc,           \* execution subprocess: "none", "alive", "exited"
    returncode,     \* its exit code once exited
    status,         \* the job's status as the tracking service shows it
    reported,       \* the subprocess itself has recorded pass or fail
    pushes,         \* pushes made by this process, in order
    elapsed,        \* whole seconds since run_with_watchdog started
    tickLog,        \* total_seconds of every poll that saw the child alive
    transfers,      \* number of transfer_archives calls
    transfer_log,   \* what the latest transfer_archives call did, in order
    kill_calls,     \* number of kill_job calls
    calls,          \* lifecycle calls made by this process, in order
    aggregator,     \* argument sets of the teuthology-results spawns
    archive_dir,    \* the job's archive directory exists
    persisted,      \* the descriptor was written back to the config file
    failures        \* number of outside calls that have failed so far

vars == <<variant, results_server, loaded_targets, job_config, pc, exc,
          raised, proc, returncode, status, reported, pushes, elapsed,
          tickLog, transfers, transfer_log, kill_calls, calls, aggregator,
          archive_dir, persisted, failures>>


(***************************************************************************)
(* Job descriptors.  A descriptor is the mapping loaded from the job's     *)
(* YAML file; a BOOLEAN field says whether the key is present and truthy.  *)
(* nuke_on_error stands for the key 'nuke-on-error'.                       *)
(***************************************************************************)
BoundaryDescriptors ==
    { d \in [targets : BOOLEAN, keys : {"orig"}, first_in_suite : BOOLEAN,
             last_in_suite : BOOLEAN, config : {"absent"},
             unlock_on_failure : {FALSE}, nuke_on_error : {FALSE},
             teuthology_branch : {"master"}, seed : BOOLEAN,
             subset : BOOLEAN, email : BOOLEAN] :
        d.first_in_suite \/ d.last_in_suite }

JobDescriptors ==
    [targets : BOOLEAN, keys : {"orig"}, first_in_suite : {FALSE},
     last_in_suite : {FALSE}, config : ConfigShapes,
     unlock_on_failure : BOOLEAN, nuke_on_error : BOOLEAN,
     teuthology_branch : Branches, seed : {FALSE}, subset : {FALSE},
     email : {FALSE}]

Descriptors == BoundaryDescriptors \cup JobDescriptors

\* the failure policy flags are read by unlock_targets alone, which the
\* worker does not have: its descriptors leave them unset
ReadsFailurePolicy(c) == c.unlock_on_failure \/ c.nuke_on_error

(***************************************************************************)
(* The tracking service.  A push without a status only refreshes the       *)
(* record's update time; a push of dead is ignored once pass or fail is    *)
(* recorded; any other status replaces the recorded one.                   *)
(***************************************************************************)
TrackerPush(cur, new) ==
    IF new = "none" THEN cur
    ELSE IF new = "dead" /\ cur \in {"pass", "fail"} THEN cur
    ELSE new

\* report.try_push_job_info: the push is attempted, a failure is logged and
\* swallowed, and the record changes only when the push went through
TryPush(cur, new, ok) == IF ok THEN TrackerPush(cur, new) ELSE cur

Push(st, ok) == [status |-> st, ok |-> ok]

Call(op, arg, ok) == [op |-> op, arg |-> arg, ok |-> ok]

\* an exception: the function it was raised in, the call that raised it,
\* its class, and whether an except clause of this process caught it
Raise(fn, step, kind, caught) ==
    [fn |-> fn, step |-> step, kind |-> kind, caught |-> caught]

\* the number of failures among the outcomes ok
Fails(ok) == IF ok THEN 0 ELSE 1

\* whether n more failures fit in the run
CanFail(n) == failures + n <= MaxFailures

Init ==
    /\ variant \in {"supervisor", "worker"}
    /\ results_server \in BOOLEAN
    /\ job_config \in Descriptors
    /\ variant = "worker" => ~ReadsFailurePolicy(job_config)
    /\ loaded_targets = job_config.targets
    /\ pc = "main"
    /\ exc = "none"
    /\ raised = <<>>
    /\ proc = "none"
    /\ returncode = 0
    /\ status = "queued"
    /\ reported = FALSE
    /\ pushes = <<>>
    /\ elapsed = 0
    /\ tickLog = <<>>
    /\ transfers = 0
    /\ transfer_log = <<>>
    /\ kill_calls = 0
    /\ calls = <<>>
    /\ aggregator = <<>>
    /\ archive_dir = (variant = "supervisor")
    /\ persisted = FALSE
    /\ failures = 0

(***************************************************************************)
(* main(): the reimage step, outside the try block that catches SkipJob.   *)
(***************************************************************************)
\* the status reimage_machines pushes once the reimage is over
ReimagedStatus(v) == IF v = "supervisor" THEN "running" ELSE "waiting"

\* the outcomes of lock.ops.reimage_many
ReimageOutcomes == {"ok", "Exception", "SkipJob"}

MainNoTargets ==
    /\ pc = "main"
    /\ ~job_config.targets
    /\ pc' = "run_job"
    /\ UNCHANGED <<variant, results_server, loaded_targets, job_config, exc,
                   raised, proc, returncode, status, reported, pushes,
                   elapsed, tickLog, transfers, transfer_log, kill_calls,
                   calls, aggregator, archive_dir, persisted, failures>>

\* a reimage step that logs a failed reimage and lets the job go on
ReimageMachinesBestEffort ==
    /\ pc = "main"
    /\ job_config.targets
    /\ \E ok1 \in BOOLEAN, ok2 \in BOOLEAN, out \in ReimageOutcomes :
        /\ CanFail(Fails(ok1) + Fails(ok2) + Fails(out = "ok"))
        /\ failures' = failures + Fails(ok1) + Fails(ok2)
                                 + Fails(out = "ok")
        /\ calls' = Append(calls, Call("reimage", Targets, out = "ok"))
        /\ job_config' = IF out = "ok"
                         THEN [job_config EXCEPT !.keys = "reimaged"]
                         ELSE job_config
        /\ pushes' = pushes \o <<Push("waiting", ok1),
                                  Push(ReimagedStatus(variant), ok2)>>
        /\ status' = TryPush(TryPush(status, "waiting", ok1),
                             ReimagedStatus(variant), ok2)
        /\ persisted' = (variant = "supervisor")
        /\ raised' = IF out = "ok" THEN raised
                     ELSE Append(raised, Raise("reimage_machines",
                                               "reimage_many", out, TRUE))
    /\ pc' = "run_job"
    /\ UNCHANGED <<variant, results_server, loaded_targets, exc, proc,
                   returncode, reported, elapsed, tickLog, transfers,
                   transfer_log, kill_calls, aggregator, archive_dir>>

ReimageMachines ==
    /\ pc = "main"
    /\ job_config.targets
    /\ \E ok1 \in BOOLEAN, ok2 \in BOOLEAN, out \in ReimageOutcomes :
        LET s1 == TryPush(status, "waiting", ok1)
            s2 == TryPush(s1, ReimagedStatus(variant), ok2)
        IN  /\ out # "ok" => ok2
            /\ CanFail(Fails(ok1) + Fails(ok2) + Fails(out = "ok"))
            /\ failures' = failures + Fails(ok1) + Fails(ok2)
                                     + Fails(out = "ok")
            /\ calls' = Append(calls, Call("reimage", Targets, out = "ok"))
            /\ IF out = "ok"
               THEN /\ job_config' = [job_config EXCEPT !.keys = "reimaged"]
                    /\ pushes' = pushes \o <<Push("waiting", ok1),
                                    Push(ReimagedStatus(variant), ok2)>>
                    /\ status' = s2
                    /\ persisted' = (variant = "supervisor")
                    /\ pc' = "run_job"
                    /\ UNCHANGED <<exc, raised>>
               ELSE /\ pushes' = Append(pushes, Push("waiting", ok1))
                    /\ status' = s1
                    /\ raised' = Append(raised,
                                        Raise("reimage_machines",
                                              "reimage_many", out, FALSE))
                    /\ exc' = out
                    /\ pc' = "raised"
                    /\ UNCHANGED <<job_config, persisted>>
    /\ UNCHANGED <<variant, results_server, loaded_targets, proc, returncode,
                   reported, elapsed, tickLog, transfers, transfer_log,
                   kill_calls, aggregator, archive_dir>>


(***************************************************************************)
(* run_job(): boundary jobs.                                               *)
(***************************************************************************)
IsBoundary(c) == c.first_in_suite \/ c.last_in_suite

\* a dispatch that looks at last_in_suite first
AggregatorArgsLastFirst(c) ==
    IF c.last_in_suite
    THEN {"--timeout"} \cup (IF c.email THEN {"--email"} ELSE {})
    ELSE (IF c.seed THEN {"--seed"} ELSE {})
         \cup (IF c.subset THEN {"--subset"} ELSE {})

\* the options added to the teuthology-results command line
AggregatorArgs(c) ==
    IF c.first_in_suite
    THEN (IF c.seed THEN {"--seed"} ELSE {})
         \cup (IF c.subset THEN {"--subset"} ELSE {})
    ELSE {"--timeout"} \cup (IF c.email THEN {"--email"} ELSE {})

\* an exception that leaves run_job: main catches SkipJob and returns
MainCatches(e) == e = "SkipJob"

\* report.try_delete_jobs: the rows recorded for the job are gone when
\* the call goes through and stay when it fails
TrackerDelete(cur, ok) == IF ok THEN "absent" ELSE cur

\* a dispatch that spawns teuthology-results before it deletes the rows
BoundaryCallsSpawnFirst(rs, ok) ==
    IF rs
    THEN <<Call("spawn_results", {}, TRUE), Call("try_delete_jobs", {}, ok)>>
    ELSE <<Call("spawn_results", {}, TRUE)>>

\* the calls of the boundary branch: the deletion, made only when a
\* results server is configured, then the Popen of teuthology-results
BoundaryCalls(rs, ok) ==
    IF rs
    THEN <<Call("try_delete_jobs", {}, ok), Call("spawn_results", {}, TRUE)>>
    ELSE <<Call("spawn_results", {}, TRUE)>>

RunJobBoundary ==
    /\ pc = "run_job"
    /\ IsBoundary(job_config)
    /\ \E ok \in BOOLEAN :
        IF results_server
        THEN /\ calls' = calls \o BoundaryCalls(results_server, ok)
             /\ status' = TrackerDelete(status, ok)
             /\ raised' = IF ok THEN raised
                          ELSE Append(raised,
                                      Raise("run_job", "try_delete_jobs",
                                            "Exception", TRUE))
             /\ CanFail(Fails(ok))
             /\ failures' = failures + Fails(ok)
        ELSE /\ ok
             /\ calls' = calls \o BoundaryCalls(results_server, ok)
             /\ status' = status
             /\ raised' = raised
             /\ failures' = failures
    /\ aggregator' = Append(aggregator, AggregatorArgs(job_config))
    /\ archive_dir' = IF variant = "supervisor" THEN FALSE ELSE TRUE
    /\ pc' = "done"
    /\ UNCHANGED <<variant, results_server, loaded_targets, job_config, exc,
                   proc, returncode, reported, pushes, elapsed, tickLog,
                   transfers, transfer_log, kill_calls, persisted>>

(***************************************************************************)
(* run_job(): the execution subprocess.                                    *)
(***************************************************************************)
\* job_config after the legacy 'config' entry is popped and, when it is a
\* mapping, merged into the descriptor
MergeLegacy(c) ==
    [c EXCEPT !.config = "absent",
              !.targets = c.targets \/ c.config = "dict_targets"]

RunJobSpawn ==
    /\ pc = "run_job"
    /\ ~IsBoundary(job_config)
    /\ job_config' = MergeLegacy(job_config)
    /\ proc' = "alive"
    /\ calls' = Append(calls, Call("spawn_exec", {}, TRUE))
    /\ archive_dir' = TRUE
    /\ pc' = IF results_server THEN "wd_sleep0" ELSE "sync_wait"
    /\ UNCHANGED <<variant, results_server, loaded_targets, exc, raised,
                   returncode, status, reported, pushes, elapsed, tickLog,
                   transfers, transfer_log, kill_calls, aggregator,
                   persisted, failures>>

\* without a results server: sleep, then p.wait()
SyncWait ==
    /\ pc = "sync_wait"
    /\ proc = "exited"
    /\ pc' = "record_exit"
    /\ UNCHANGED <<variant, results_server, loaded_targets, job_config, exc,
                   raised, proc, returncode, status, reported, pushes,
                   elapsed, tickLog, transfers, transfer_log, kill_calls,
                   calls, aggregator, archive_dir, persisted, failures>>

(***************************************************************************)
(* The execution subprocess: it may record pass or fail through its own    *)
(* reporting, and it exits when it likes.                                  *)
(***************************************************************************)
ProcReport ==
    /\ proc = "alive"
    /\ ~reported
    /\ \E st \in {"pass", "fail"} : status' = TrackerPush(status, st)
    /\ reported' = TRUE
    /\ UNCHANGED <<variant, results_server, loaded_targets, job_config, pc,
                   exc, raised, proc, returncode, pushes, elapsed, tickLog,
                   transfers, transfer_log, kill_calls, calls, aggregator,
                   archive_dir, persisted, failures>>

ProcExit ==
    /\ proc = "alive"
    /\ proc' = "exited"
    /\ returncode' \in {0, 1}
    /\ UNCHANGED <<variant, results_server, loaded_targets, job_config, pc,
                   exc, raised, status, reported, pushes, elapsed, tickLog,
                   transfers, transfer_log, kill_calls, calls, aggregator,
                   archive_dir, persisted, failures>>


(***************************************************************************)
(* transfer_archives().  The plan of a call is the sequence of the calls   *)
(* it makes when nothing fails; at most one of them fails in one call.     *)
(***************************************************************************)
\* the log types of job_info['archive'], in the order the mapping yields
Phases == <<"init", "log">>

\* ctx.cluster.remotes, in the order the mapping yields them
Remotes == <<"a", "b">>

Unit(op, host, phase) == [op |-> op, host |-> host, phase |-> phase]

RECURSIVE Flatten(_)
Flatten(ss) == IF ss = <<>> THEN <<>> ELSE Head(ss) \o Flatten(Tail(ss))

\* compress_logs: ctx.cluster.run(wait=False) starts the command on every
\* remote before run.wait() waits for any of them
CompressLogs(p) ==
    [i \in 1..Len(Remotes) |-> Unit("compress_start", Remotes[i], p)]
    \o [i \in 1..Len(Remotes) |-> Unit("compress_wait", Remotes[i], p)]

\* archive_logs pulls the directory from one remote after the other
ArchiveLogs(p) == [i \in 1..Len(Remotes) |-> Unit("pull", Remotes[i], p)]

\* a transfer that pulls from a remote as soon as that remote has finished
SupervisorPhasePipelined(p) ==
    [i \in 1..Len(Remotes) |-> Unit("compress_start", Remotes[i], p)]
    \o Flatten([i \in 1..Len(Remotes) |->
                   <<Unit("compress_wait", Remotes[i], p),
                     Unit("pull", Remotes[i], p)>>])

\* the body of the loop over job_info['archive']
SupervisorPhase(p) == CompressLogs(p) \o ArchiveLogs(p)

WorkerRemote(h) == [i \in 1..Len(Phases) |-> Unit("pull", h, Phases[i])]

TransferPlan(v, has_archive) ==
    <<Unit("job_info", "", "")>>
    \o (IF ~has_archive THEN <<>>
        ELSE <<Unit("add_remotes", "", "")>>
             \o (IF v = "supervisor"
                 THEN Flatten([i \in 1..Len(Phases) |->
                                   SupervisorPhase(Phases[i])])
                 ELSE Flatten([i \in 1..Len(Remotes) |->
                                   WorkerRemote(Remotes[i])])))

\* the failures one call of the plan can meet: index 0 is no failure
TransferFailures(plan) ==
    {[at |-> 0, kind |-> "none"]}
    \cup {[at |-> i, kind |-> "Exception"] : i \in 1..Len(plan)}
    \cup {[at |-> i, kind |-> "ReadError"] :
              i \in {j \in 1..Len(plan) : plan[j].op = "pull"}}

\* archive_logs catches tarfile.ReadError around pull_directory; the
\* worker's transfer_archives catches nothing
Swallowed(v, unit, kind) ==
    v = "supervisor" /\ unit.op = "pull" /\ kind = "ReadError"

TransferRaises(v, plan, f) ==
    f.at # 0 /\ ~Swallowed(v, plan[f.at], f.kind)

\* the calls made, each with its outcome
TransferTrace(v, plan, f) ==
    LET n == IF TransferRaises(v, plan, f) THEN f.at ELSE Len(plan)
    IN  [i \in 1..n |->
            [unit |-> plan[i],
             result |-> IF i = f.at THEN f.kind ELSE "ok"]]

(***************************************************************************)
(* run_with_watchdog().                                                    *)
(***************************************************************************)
\* a watchdog that remembers it has already asked for the kill
OverBudgetOnce(total_seconds) ==
    total_seconds > MaxJobTime /\ kill_calls = 0

\* a watchdog that kills as soon as the budget is used up
OverBudgetInclusive(total_seconds) == total_seconds >= MaxJobTime

\* total_seconds > teuth_config.max_job_time
OverBudget(total_seconds) == total_seconds > MaxJobTime

\* a heartbeat that pushes dead on every tick
HeartbeatDead == "dead"

\* a heartbeat that re-sends the status running
HeartbeatRunning == "running"

\* the status a heartbeat carries: none, only name and job_id are sent
HeartbeatStatus == "none"

\* time.sleep(teuth_config.watchdog_interval)
SleepTimes == {WatchdogInterval}

\* a run_job that logs the exception and carries on
PropagateSwallow(e) == "record_exit"

\* an exception leaves run_with_watchdog: run_job logs and re-raises it
Propagate(e) == IF MainCatches(e) THEN "done" ELSE "raised"

WdInitialSleep ==
    /\ pc = "wd_sleep0"
    /\ elapsed' \in SleepTimes
    /\ pc' = "wd_poll"
    /\ UNCHANGED <<variant, results_server, loaded_targets, job_config, exc,
                   raised, proc, returncode, status, reported, pushes,
                   tickLog, transfers, transfer_log, kill_calls, calls,
                   aggregator, archive_dir, persisted, failures>>

\* while process.poll() is None: compute total_seconds and compare
WdPoll ==
    /\ pc = "wd_poll"
    /\ IF proc = "alive"
       THEN /\ Len(tickLog) < MaxTicks
            /\ tickLog' = Append(tickLog, elapsed)
            /\ pc' = IF OverBudget(elapsed) THEN "wd_transfer"
                     ELSE "wd_heartbeat"
       ELSE /\ pc' = "wd_assert"
            /\ UNCHANGED tickLog
    /\ UNCHANGED <<variant, results_server, loaded_targets, job_config, exc,
                   raised, proc, returncode, status, reported, pushes,
                   elapsed, transfers, transfer_log, kill_calls, calls,
                   aggregator, archive_dir, persisted, failures>>

WdTransfer ==
    /\ pc = "wd_transfer"
    /\ \E has_archive \in BOOLEAN :
        LET plan == TransferPlan(variant, has_archive) IN
        \E f \in TransferFailures(plan) :
            /\ CanFail(Fails(f.at = 0))
            /\ failures' = failures + Fails(f.at = 0)
            /\ transfers' = transfers + 1
            /\ transfer_log' = TransferTrace(variant, plan, f)
            /\ IF TransferRaises(variant, plan, f)
               THEN /\ raised' = Append(raised,
                                    Raise("transfer_archives",
                                          plan[f.at].op, f.kind,
                                          MainCatches(f.kind)))
                    /\ exc' = IF MainCatches(f.kind) THEN exc ELSE f.kind
                    /\ pc' = Propagate(f.kind)
               ELSE /\ pc' = "wd_kill"
                    /\ UNCHANGED <<raised, exc>>
    /\ UNCHANGED <<variant, results_server, loaded_targets, job_config, proc,
                   returncode, status, reported, pushes, elapsed, tickLog,
                   kill_calls, calls, aggregator, archive_dir, persisted>>

\* kill_job signals the job's processes and marks the job dead
WdKill ==
    /\ pc = "wd_kill"
    /\ kill_calls' = kill_calls + 1
    /\ status' = TrackerPush(status, "dead")
    /\ pc' = "wd_heartbeat"
    /\ UNCHANGED <<variant, results_server, loaded_targets, job_config, exc,
                   raised, proc, returncode, reported, pushes, elapsed,
                   tickLog, transfers, transfer_log, calls, aggregator,
                   archive_dir, persisted, failures>>

\* report.try_push_job_info(job_info), then the sleep that ends the tick
WdHeartbeat ==
    /\ pc = "wd_heartbeat"
    /\ \E ok \in BOOLEAN :
        /\ CanFail(Fails(ok))
        /\ failures' = failures + Fails(ok)
        /\ pushes' = Append(pushes, Push(HeartbeatStatus, ok))
        /\ status' = TryPush(status, HeartbeatStatus, ok)
    /\ \E d \in SleepTimes : elapsed' = elapsed + d
    /\ pc' = "wd_poll"
    /\ UNCHANGED <<variant, results_server, loaded_targets, job_config, exc,
                   raised, proc, returncode, reported, tickLog, transfers,
                   transfer_log, kill_calls, calls, aggregator, archive_dir,
                   persisted>>

\* after the loop: the assertion on the branch, then the push of dead
WdFinish ==
    /\ pc = "wd_assert"
    /\ IF job_config.teuthology_branch \in LegacyBranches
       THEN /\ raised' = Append(raised,
                               Raise("run_with_watchdog", "assert",
                                     "AssertionError",
                                     MainCatches("AssertionError")))
            /\ exc' = "AssertionError"
            /\ pc' = Propagate("AssertionError")
            /\ UNCHANGED <<pushes, status, failures>>
       ELSE /\ \E ok \in BOOLEAN :
                /\ CanFail(Fails(ok))
                /\ failures' = failures + Fails(ok)
                /\ pushes' = Append(pushes, Push("dead", ok))
                /\ status' = TryPush(status, "dead", ok)
            /\ pc' = "record_exit"
            /\ UNCHANGED <<raised, exc>>
    /\ UNCHANGED <<variant, results_server, loaded_targets, job_config, proc,
                   returncode, reported, elapsed, tickLog, transfers,
                   transfer_log, kill_calls, calls, aggregator, archive_dir,
                   persisted>>


(***************************************************************************)
(* run_job(): after the subprocess has exited.                             *)
(***************************************************************************)
\* a supervisor that leaves the machines alone when the subprocess failed
RunsUnlockStepOnSuccess(v, c) ==
    v = "supervisor" /\ c.targets /\ returncode = 0

\* if 'targets' in job_config: unlock_targets(job_config), supervisor only
RunsUnlockStep(v, c) == v = "supervisor" /\ c.targets

RecordExit ==
    /\ pc = "record_exit"
    /\ pc' = IF RunsUnlockStep(variant, job_config) THEN "unlock" ELSE "done"
    /\ UNCHANGED <<variant, results_server, loaded_targets, job_config, exc,
                   raised, proc, returncode, status, reported, pushes,
                   elapsed, tickLog, transfers, transfer_log, kill_calls,
                   calls, aggregator, archive_dir, persisted, failures>>

(***************************************************************************)
(* unlock_targets().                                                       *)
(***************************************************************************)
\* the targets of the job record, in the order the mapping yields them
TargetSeq == <<"ubuntu@a.front", "ubuntu@b.front">>

\* query.get_statuses: one entry per machine asked about
MachineStatus(locks) ==
    [i \in 1..Len(TargetSeq) |->
        [name |-> HostOf(TargetSeq[i]), locked |-> locks[TargetSeq[i]]]]

\* the hosts the lock server reports as locked
LockedHosts(locks) == {HostOf(t) : t \in {u \in Targets : locks[u]}}

IsLocked(m) == m.locked

\* an unlock step that does not look at the lock state
LockedOfAll(machine_status) ==
    [i \in 1..Len(machine_status) |-> shortname(machine_status[i].name)]

\* [shortname(_['name']) for _ in machine_status if _['locked']]
LockedOf(machine_status) ==
    LET sel == SelectSeq(machine_status, IsLocked)
    IN  [i \in 1..Len(sel) |-> shortname(sel[i].name)]

ShouldUnlock(job_status, c) ==
    job_status = "pass" \/ (c.unlock_on_failure /\ ~c.nuke_on_error)

\* the older policy, which nukes only when unlock_on_failure is unset
ShouldNukeGuarded(job_status, c) ==
    job_status # "pass" /\ c.nuke_on_error /\ ~c.unlock_on_failure

ShouldNuke(job_status, c) ==
    job_status # "pass" /\ c.nuke_on_error

\* lock.ops.unlock_one answers ok (TRUE) or error (FALSE) for its machine
UnlockOneOutcomes == BOOLEAN

\* a loop that gives up at the first machine that cannot be unlocked
UnlockCallsStopOnError(locked, answers) ==
    LET bad == {i \in 1..Len(locked) : ~answers[i]}
        n == IF bad = {} THEN Len(locked)
             ELSE CHOOSE i \in bad : \A j \in bad : i <= j
    IN  [i \in 1..n |-> Call("unlock_one", {locked[i]}, answers[i])]

\* the unlock_one calls of the loop over locked, each with its answer
UnlockCalls(locked, answers) ==
    [i \in 1..Len(locked) |-> Call("unlock_one", {locked[i]}, answers[i])]

\* nuke(fake_ctx, True): the targets are those of the descriptor
NukeCalls(c) == <<Call("nuke", Targets, TRUE)>>

UnlockTargets ==
    /\ pc = "unlock"
    /\ \E read_ok \in BOOLEAN :
        IF ~read_ok
        THEN /\ CanFail(1)
             /\ failures' = failures + 1
             /\ raised' = Append(raised,
                                 Raise("unlock_targets", "job_info",
                                       "Exception",
                                       MainCatches("Exception")))
             /\ exc' = "Exception"
             /\ pc' = Propagate("Exception")
             /\ calls' = Append(calls, Call("job_info", {}, FALSE))
        ELSE \E locks \in [Targets -> BOOLEAN] :
             LET locked == LockedOf(MachineStatus(locks))
                 job_status == status
                 unlocking == locked # <<>>
                              /\ ShouldUnlock(job_status, job_config)
                 nuking == locked # <<>>
                           /\ ShouldNuke(job_status, job_config)
                 n_calls == IF unlocking THEN Len(locked) ELSE 0
             IN  \E answers \in [1..n_calls -> UnlockOneOutcomes] :
                 LET n_bad == Cardinality({i \in 1..n_calls : ~answers[i]})
                 IN
                 /\ CanFail(n_bad)
                 /\ failures' = failures + n_bad
                 /\ calls' = calls
                      \o <<Call("job_info", {}, TRUE),
                           Call("get_statuses", LockedHosts(locks), TRUE)>>
                      \o (IF unlocking THEN UnlockCalls(locked, answers)
                          ELSE <<>>)
                      \o (IF nuking THEN NukeCalls(job_config) ELSE <<>>)
                 /\ pc' = "done"
                 /\ UNCHANGED <<raised, exc>>
    /\ UNCHANGED <<variant, results_server, loaded_targets, job_config, proc,
                   returncode, status, reported, pushes, elapsed, tickLog,
                   transfers, transfer_log, kill_calls, aggregator,
                   archive_dir, persisted>>

(***************************************************************************)
(* The specification.                                                      *)
(***************************************************************************)
Next ==
    \/ MainNoTargets
    \/ ReimageMachines
    \/ RunJobBoundary
    \/ RunJobSpawn
    \/ SyncWait
    \/ ProcReport
    \/ ProcExit
    \/ WdInitialSleep
    \/ WdPoll
    \/ WdTransfer
    \/ WdKill
    \/ WdHeartbeat
    \/ WdFinish
    \/ RecordExit
    \/ UnlockTargets

Spec == Init /\ [][Next]_vars

\* the supervisor is a running process: a poll whose turn has come is
\* made, and so are the steps that follow the loop
FairSpec == Spec /\ WF_vars(WdPoll) /\ WF_vars(WdFinish)


(***************************************************************************)
(* Vocabulary of the properties.                                           *)
(***************************************************************************)
Ended == pc \in {"done", "raised"}

InWatchdog ==
    pc \in {"wd_sleep0", "wd_poll", "wd_transfer", "wd_kill",
            "wd_heartbeat", "wd_assert"}

CallsOf(op) == {i \in 1..Len(calls) : calls[i].op = op}

PushesOf(st) == {i \in 1..Len(pushes) : pushes[i].status = st}

\* the polls that found the child alive and the budget exceeded
OverBudgetTicks == {i \in 1..Len(tickLog) : tickLog[i] > MaxJobTime}

\* the latest transfer_archives call raised
LastTransferRaised ==
    /\ transfer_log # <<>>
    /\ LET last == transfer_log[Len(transfer_log)]
       IN  last.result # "ok"
           /\ ~Swallowed(variant, last.unit, last.result)

\* the current tick is over budget and has not reached kill_job yet, or
\* never will because its archive transfer raised
KillOutstanding ==
    IF pc \in {"wd_transfer", "wd_kill"} \/ LastTransferRaised
    THEN 1 ELSE 0

WatchdogRan == results_server /\ CallsOf("spawn_exec") # {}

C2_DeadPushedOnceAfterExit ==
    (WatchdogRan /\ proc = "exited" /\ Ended)
        => Cardinality(PushesOf("dead")) = 1

(***************************************************************************)
(* C2, amended.  Once a poll of the watchdog finds the subprocess exited   *)
(* the loop is over; dead is then pushed exactly once, as the last push    *)
(* of the run and so after every heartbeat, unless teuthology_branch is    *)
(* one of the retired branches, in which case the assertion fails and      *)
(* dead is never pushed.  Dead is pushed in no other case.                 *)
(***************************************************************************)
RetiredBranch ==
    job_config.teuthology_branch
        \in {"argonaut", "bobtail", "cuttlefish", "dumpling"}

\* run_with_watchdog has returned
WatchdogReturned ==
    /\ WatchdogRan
    /\ \/ pc \in {"record_exit", "unlock", "done"}
       \/ pc = "raised" /\ raised[Len(raised)].fn = "unlock_targets"

DeadOnlyAfterLoop ==
    /\ \A i \in PushesOf("dead") : i = Len(pushes)
    /\ PushesOf("dead") # {} <=> WatchdogReturned
    /\ WatchdogReturned => proc = "exited" /\ ~RetiredBranch
    /\ (WatchdogRan /\ pc = "raised" /\ ~WatchdogReturned /\ proc = "exited"
        /\ ~LastTransferRaised) => RetiredBranch
    /\ pc = "wd_assert" => proc = "exited"

C2_DeadOnceAfterLoop ==
    /\ []DeadOnlyAfterLoop
    /\ (pc = "wd_poll" /\ proc = "exited" /\ ~RetiredBranch)
            ~> (PushesOf("dead") # {})
    /\ (pc = "wd_poll" /\ proc = "exited" /\ RetiredBranch)
            ~> (pc = "raised" /\ PushesOf("dead") = {})

C2_Witness ==
    /\ pc = "done"
    /\ PushesOf("none") # {}
    /\ PushesOf("dead") = {Len(pushes)}
    /\ kill_calls > 0

(***************************************************************************)
(* C3.  Once the subprocess has recorded pass or fail, neither the push    *)
(* of dead, nor a heartbeat, nor the kill changes the status the tracking  *)
(* service shows; dead is shown only when no pass or fail was recorded.    *)
(***************************************************************************)
C3_TerminalStatusKept ==
    /\ [][(status \in {"pass", "fail"}) => (status' = status)]_vars
    /\ [](status = "dead" => ~reported)

C3_Witness ==
    /\ reported
    /\ status = "pass"
    /\ \E i \in PushesOf("dead") : pushes[i].ok
    /\ \E i \in PushesOf("none") : pushes[i].ok


(***************************************************************************)
(* Vocabulary of the unlock/nuke step.                                     *)
(***************************************************************************)
\* unlock_targets has asked the lock server and gone on from there
UnlockStepRan == CallsOf("get_statuses") # {}

\* the hosts the lock server reported as locked
LockedReported ==
    UNION {calls[i].arg : i \in CallsOf("get_statuses")}

\* the machines unlock_one was called for
UnlockedMachines ==
    UNION {calls[i].arg : i \in CallsOf("unlock_one")}

NoMachineCalls ==
    CallsOf("unlock_one") = {} /\ CallsOf("nuke") = {}

(***************************************************************************)
(* C4.  With at least one target reported locked: status pass unlocks      *)
(* every locked target and nukes nothing; a status other than pass with    *)
(* unlock_on_failure set and nuke-on-error unset does the same; a status   *)
(* other than pass with nuke-on-error set makes exactly one nuke call on   *)
(* the whole target set and no unlock call.                                *)
(***************************************************************************)
UnlocksEachLocked ==
    /\ Cardinality(CallsOf("unlock_one")) = Cardinality(LockedReported)
    /\ UnlockedMachines = {shortname(h) : h \in LockedReported}
    /\ CallsOf("nuke") = {}

NukesAllOnce ==
    /\ Cardinality(CallsOf("nuke")) = 1
    /\ \A i \in CallsOf("nuke") : calls[i].arg = Targets
    /\ CallsOf("unlock_one") = {}

C4_DecisionTable ==
    (UnlockStepRan /\ LockedReported # {}) =>
        /\ status = "pass" => UnlocksEachLocked
        /\ (status # "pass" /\ job_config.unlock_on_failure
            /\ ~job_config.nuke_on_error) => UnlocksEachLocked
        /\ (status # "pass" /\ job_config.nuke_on_error) => NukesAllOnce

C4_Witness ==
    /\ UnlockStepRan
    /\ LockedReported = {"a.front"}
    /\ status = "fail"
    /\ job_config.unlock_on_failure
    /\ job_config.nuke_on_error
    /\ CallsOf("nuke") # {}

(***************************************************************************)
(* C5.  If the lock server reports none of the targets locked, the step    *)
(* makes no unlock call and no nuke call, whatever the status and the      *)
(* flags; and unlock is only ever called for a machine reported locked.    *)
(***************************************************************************)
C5_NothingLockedNothingDone ==
    /\ (UnlockStepRan /\ LockedReported = {}) => NoMachineCalls
    /\ UnlockedMachines \subseteq {shortname(h) : h \in LockedReported}
    /\ ~UnlockStepRan => NoMachineCalls

C5_Witness ==
    /\ UnlockStepRan
    /\ LockedReported = {}
    /\ status = "fail"
    /\ job_config.nuke_on_error
    /\ pc = "done"

(***************************************************************************)
(* C6.  For a descriptor loaded without a top-level targets entry, with    *)
(* or without a legacy config entry, the reimage step, the unlock step     *)
(* and the nuke step are never invoked.                                    *)
(***************************************************************************)
C6_NoTargetsNoMachineSteps ==
    ~loaded_targets =>
        /\ CallsOf("reimage") = {}
        /\ pc # "unlock"
        /\ CallsOf("job_info") = {}
        /\ NoMachineCalls

(***************************************************************************)
(* C7.  For a boundary job run_job spawns no execution subprocess, runs    *)
(* no watchdog (no heartbeat, no kill, no push of dead) and no unlock or   *)
(* nuke step, and spawns exactly one teuthology-results process: with      *)
(* --seed and --subset alone for first_in_suite, with --timeout and        *)
(* --email alone for last_in_suite, first_in_suite winning when both are   *)
(* set.                                                                    *)
(***************************************************************************)
BoundaryJob == job_config.first_in_suite \/ job_config.last_in_suite

ArgsMatchKind(args) ==
    IF job_config.first_in_suite
    THEN /\ args \subseteq {"--seed", "--subset"}
         /\ "--seed" \in args <=> job_config.seed
         /\ "--subset" \in args <=> job_config.subset
    ELSE /\ args \subseteq {"--timeout", "--email"}
         /\ "--timeout" \in args
         /\ "--email" \in args <=> job_config.email

C7_BoundaryDispatch ==
    BoundaryJob =>
        /\ proc = "none" /\ CallsOf("spawn_exec") = {}
        /\ ~InWatchdog /\ pc \notin {"sync_wait", "record_exit", "unlock"}
        /\ PushesOf("none") = {} /\ PushesOf("dead") = {}
        /\ kill_calls = 0 /\ transfers = 0
        /\ CallsOf("job_info") = {} /\ NoMachineCalls
        /\ Len(aggregator) = (IF pc = "done" THEN 1 ELSE 0)
        /\ Cardinality(CallsOf("spawn_results")) = Len(aggregator)
        /\ \A i \in 1..Len(aggregator) : ArgsMatchKind(aggregator[i])

C7_Witness ==
    /\ pc = "done"
    /\ job_config.first_in_suite /\ job_config.last_in_suite
    /\ job_config.seed /\ job_config.email
    /\ aggregator = <<{"--seed"}>>

(***************************************************************************)
(* C8.  When SkipJob is raised by a lifecycle step, the reimage step       *)
(* included, main returns normally and no further step runs.               *)
(***************************************************************************)
C8_SkipJobReturnsNormally ==
    \A i \in 1..Len(raised) :
        raised[i].kind = "SkipJob" =>
            /\ raised[i].caught
            /\ exc = "none"
            /\ pc # "raised"

(***************************************************************************)
(* C9.  On a tick that is over budget a failure inside transfer_archives   *)
(* is swallowed: kill_job is still called in that tick and the watchdog    *)
(* goes on.                                                                *)
(***************************************************************************)
C9_ArchiveFailureSwallowed ==
    /\ \A i \in 1..Len(raised) :
           raised[i].fn = "transfer_archives" => raised[i].caught
    /\ pc \notin {"wd_transfer", "wd_kill"} => kill_calls = transfers

(***************************************************************************)
(* C10.  A failure of a tracking-service call (a push, the deletion of     *)
(* the records of a boundary job, the read of the job record in            *)
(* unlock_targets and in transfer_archives) is caught and the run goes     *)
(* on to its next step.                                                    *)
(***************************************************************************)
C10_TrackerFailuresCaught ==
    \A i \in 1..Len(raised) :
        raised[i].step \in {"try_delete_jobs", "job_info"}
            => raised[i].caught

(***************************************************************************)
(* C11.  In the unlock branch an unlock call is made for every machine     *)
(* reported locked whatever the other unlock calls answered: a machine     *)
(* that cannot be unlocked does not stop the calls for the machines after  *)
(* it, and nothing that was unlocked is taken back.                        *)
(***************************************************************************)
FailedUnlocks == {i \in CallsOf("unlock_one") : ~calls[i].ok}

C11_UnlockIsPerMachine ==
    FailedUnlocks # {} =>
        /\ UnlockedMachines = {shortname(h) : h \in LockedReported}
        /\ Cardinality(CallsOf("unlock_one")) = Cardinality(LockedReported)
        /\ \A i \in 1..Len(calls) :
               (\E j \in CallsOf("get_statuses") : j < i)
                   => calls[i].op = "unlock_one"
        /\ pc = "done" /\ exc = "none"

C11_Witness ==
    /\ LockedReported = {"a.front", "b.front"}
    /\ \E i \in FailedUnlocks : \E j \in CallsOf("unlock_one") :
           /\ i < j
           /\ calls[i].arg = {"a"}
           /\ calls[j].arg = {"b"} /\ calls[j].ok

(***************************************************************************)
(* C12.  The reimage step pushes waiting, calls reimage on the targets,    *)
(* replaces the descriptor's target mapping with the result and pushes     *)
(* running, in this order: after a successful reimage step the last        *)
(* status pushed for the job is running and the descriptor holds the       *)
(* reimaged targets.                                                       *)
(***************************************************************************)
Reimaged == \E i \in CallsOf("reimage") : calls[i].ok

C12_ReimageEndsRunning ==
    Reimaged =>
        /\ Len(pushes) >= 2
        /\ pushes[1].status = "waiting"
        /\ pushes[2].status = "running"
        /\ job_config.keys = "reimaged"
        /\ pc = "run_job" => pushes[Len(pushes)].status = "running"

(***************************************************************************)
(* C13.  A failed reimage call is fatal for the job: the error leaves      *)
(* main, running is not pushed, the descriptor is neither changed nor      *)
(* written back, and neither the execution subprocess nor the              *)
(* teuthology-results process is ever spawned.                             *)
(***************************************************************************)
ReimageFailed == \E i \in CallsOf("reimage") : ~calls[i].ok

C13_ReimageFailureIsFatal ==
    ReimageFailed =>
        /\ pc = "raised"
        /\ exc \in {"Exception", "SkipJob"}
        /\ PushesOf("running") = {}
        /\ ~persisted
        /\ job_config.keys = "orig"
        /\ proc = "none"
        /\ CallsOf("spawn_exec") = {} /\ CallsOf("spawn_results") = {}
        /\ aggregator = <<>>

C13_Witness ==
    /\ ReimageFailed
    /\ exc = "Exception"
    /\ variant = "supervisor"
    /\ pushes = <<Push("waiting", TRUE)>>
    /\ status = "waiting"

(***************************************************************************)
(* C14.  As stated: in every dispatch of a boundary job the deletion of    *)
(* the rows recorded for the job is requested before teuthology-results    *)
(* is spawned.                                                             *)
(***************************************************************************)
DeletionBefore(j) == \E i \in CallsOf("try_delete_jobs") : i < j

FailedDeletions == {i \in CallsOf("try_delete_jobs") : ~calls[i].ok}

CorruptPulls ==
    {i \in 1..Len(transfer_log) : transfer_log[i].result = "ReadError"}

\* the pulls the latest transfer attempted, as <<host, phase>>
PullsAttempted ==
    {<<transfer_log[i].unit.host, transfer_log[i].unit.phase>> :
        i \in {j \in 1..Len(transfer_log) :
                   transfer_log[j].unit.op = "pull"}}

AllPulls ==
    {<<Remotes[i], Phases[j]>> : i \in 1..Len(Remotes), j \in 1..Len(Phases)}

C15_CorruptArchiveIgnored ==
    CorruptPulls # {} =>
        /\ PullsAttempted = AllPulls
        /\ \A k \in 1..Len(raised) : raised[k].kind # "ReadError"

(***************************************************************************)
(* C16.  The watchdog loop does not stop after a kill request: every poll  *)
(* tick that observed the subprocess alive, over budget or not, pushes     *)
(* exactly one heartbeat without a status, and polling goes on until the   *)
(* subprocess handle reports the exit.                                     *)
(***************************************************************************)
\* the tick whose body has not yet reached the end of its heartbeat
TickInProgress ==
    IF pc \in {"wd_transfer", "wd_kill", "wd_heartbeat"} THEN 1 ELSE 0

Heartbeats == PushesOf("none")

C16_HeartbeatOnEveryAliveTick ==
    /\ Cardinality(Heartbeats) = Len(tickLog) - TickInProgress
    /\ (WatchdogRan /\ Ended) => proc = "exited"

(***************************************************************************)
(* C17.  In the archive transfer the compression of the remote logs is     *)
(* dispatched to all hosts of the job at once and joined before pulling:   *)
(* no pull of a remote directory from any host begins until the            *)
(* compression has finished on every host of the job.                      *)
(***************************************************************************)
LogIndex(op) ==
    {i \in 1..Len(transfer_log) : transfer_log[i].unit.op = op}

Hosts == {Remotes[i] : i \in 1..Len(Remotes)}

\* the unit op on host h for directory p completed before position i
DoneBefore(op, h, p, i) ==
    \E j \in LogIndex(op) :
        /\ j < i
        /\ transfer_log[j].unit.host = h
        /\ transfer_log[j].unit.phase = p
        /\ transfer_log[j].result = "ok"

WatchdogRaised ==
    \E k \in 1..Len(raised) :
        raised[k].fn \in {"transfer_archives", "run_with_watchdog"}

C18_WatchdogExceptionAbortsSupervision ==
    /\ [](WatchdogRaised =>
            /\ pc = "raised"
            /\ exc = raised[Len(raised)].kind
            /\ ~raised[Len(raised)].caught
            /\ PushesOf("dead") = {}
            /\ ~UnlockStepRan
            /\ NoMachineCalls)
    /\ [][WatchdogRaised => ~RecordExit /\ ~UnlockTargets]_vars

\* the supervisor of a job with targets, stopped by a failed transfer while
\* the subprocess is still running
C18_Witness ==
    /\ variant = "supervisor"
    /\ job_config.targets
    /\ WatchdogRaised
    /\ raised[Len(raised)].fn = "transfer_archives"
    /\ proc = "alive"
    /\ pc = "raised"

(***************************************************************************)
(* C19.  After the watchdog loop, a job whose teuthology_branch is one of  *)
(* argonaut, bobtail, cuttlefish, dumpling fails the assertion before the  *)
(* terminal push: no dead status is pushed and the failure leaves the      *)
(* watchdog.  For every other branch value, an absent one included, the    *)
(* assertion passes and dead is pushed.                                    *)
(***************************************************************************)
AssertionFailed ==
    \E k \in 1..Len(raised) :
        raised[k].fn = "run_with_watchdog" /\ raised[k].step = "assert"

C19_RetiredBranchAssertion ==
    /\ [](AssertionFailed =>
            /\ RetiredBranch
            /\ proc = "exited"
            /\ pc = "raised"
            /\ exc = "AssertionError"
            /\ PushesOf("dead") = {})
    /\ [][pc = "wd_assert" =>
            IF RetiredBranch
            THEN /\ AssertionFailed'
                 /\ pushes' = pushes
            ELSE /\ ~AssertionFailed'
                 /\ pc' = "record_exit"
                 /\ Len(pushes') = Len(pushes) + 1
                 /\ pushes'[Len(pushes')].status = "dead"]_vars

\* a dumpling job that ran through the loop and then failed the assertion
C19_Witness ==
    /\ AssertionFailed
    /\ job_config.teuthology_branch = "dumpling"
    /\ Heartbeats # {}
    /\ pc = "raised"

(***************************************************************************)
(* C20.  In the supervisor, for a job that is not a suite boundary and     *)
(* whose descriptor carries targets, the unlock/nuke step runs only after  *)
(* the subprocess has been seen to exit, and runs for exit code zero and   *)
(* non-zero alike: the exit code is not raised and has no part in the      *)
(* decision, which follows the status read from the job record.            *)
(***************************************************************************)
InUnlockStep == pc = "unlock" \/ UnlockStepRan

C20_UnlockStepAfterExitAnyCode ==
    /\ [](InUnlockStep =>
            /\ variant = "supervisor"
            /\ job_config.targets
            /\ ~IsBoundary(job_config)
            /\ proc = "exited"
            /\ returncode \in {0, 1}
            /\ (CallsOf("unlock_one") # {}
                    => ShouldUnlock(status, job_config))
            /\ (CallsOf("nuke") # {} => ShouldNuke(status, job_config)))
    /\ [][(pc = "record_exit" /\ variant = "supervisor"
           /\ job_config.targets)
              => (pc' = "unlock" /\ raised' = raised /\ exc' = exc)]_vars

\* the subprocess exited with a non-zero code after recording pass: the
\* machines are unlocked all the same
C20_Witness ==
    /\ returncode = 1
    /\ status = "pass"
    /\ pc = "done"
    /\ CallsOf("unlock_one") # {}

(***************************************************************************)
(* C21.  The watchdog calls transfer_archives and kill_job only on a poll  *)
(* tick that has just found the subprocess alive with more whole seconds   *)
(* elapsed than max_job_time; a tick at exactly max_job_time does neither. *)
(* A subprocess that exits during the initial sleep or within the budget   *)
(* is never killed and its archives are never transferred, and when it     *)
(* exits during the initial sleep no heartbeat precedes the push of dead.  *)
(***************************************************************************)
\* the latest tick found the subprocess alive and past the budget, and its
\* body is still running
InOverBudgetTick ==
    /\ tickLog # <<>>
    /\ tickLog[Len(tickLog)] > MaxJobTime
    /\ TickInProgress = 1

WithinBudget == \A i \in 1..Len(tickLog) : tickLog[i] <= MaxJobTime

C21_KillOnlyPastBudget ==
    /\ [](/\ transfers <= Cardinality(OverBudgetTicks)
          /\ kill_calls <= transfers
          /\ WithinBudget =>
                (transfers = 0 /\ kill_calls = 0 /\ transfer_log = <<>>)
          /\ tickLog = <<>> => Heartbeats = {})
    /\ [][/\ (transfers' # transfers \/ kill_calls' # kill_calls)
                => InOverBudgetTick
          /\ tickLog' # tickLog => proc = "alive"]_vars

\* the subprocess was alive at exactly max_job_time, exited before the next
\* poll and was never killed
C21_Witness ==
    /\ tickLog # <<>>
    /\ tickLog[Len(tickLog)] = MaxJobTime
    /\ proc = "exited"
    /\ PushesOf("dead") # {}
    /\ Cardinality(Heartbeats) = Len(tickLog)
    /\ kill_calls = 0
    /\ transfers = 0

\* the subprocess exited during the initial sleep
ExitedInInitialSleep ==
    /\ WatchdogRan
    /\ tickLog = <<>>
    /\ PushesOf("dead") # {}

(***************************************************************************)
(* C22.  In one supervisor run of a job that is not a suite boundary the   *)
(* unlock/nuke step is invoked at the end of run_job only if the reimage   *)
(* step was invoked for the job before the subprocess was spawned, also    *)
(* when the legacy config entry is merged into the descriptor between the  *)
(* two tests for targets.                                                  *)
(***************************************************************************)
ReimagedBeforeSpawn ==
    \E i \in CallsOf("reimage") : \A j \in CallsOf("spawn_exec") : i < j

C22_UnlockOnlyAfterReimage ==
    (variant = "supervisor" /\ InUnlockStep) => ReimagedBeforeSpawn

====
